---------------------------- MODULE Spec2Model ----------------------------
(***************************************************************************)
(* A model of the transcription orchestration engine of whisperclip        *)
(* (src/src/ui.rs, src/src/config.rs, src/src/audio.rs): the               *)
(* Idle/Recording/Processing state machine of the record button, the       *)
(* provider switches that mutate RuntimeState, the settings table, the     *)
(* model artifact files, and the background load, download and             *)
(* transcription threads with the glib timeout pollers that deliver their  *)
(* outcomes on the UI thread.                                              *)
(*                                                                         *)
(* Environment assumptions: std::fs::remove_file and Db::set_setting       *)
(* succeed; the Db mutex is never poisoned.                                *)
(***************************************************************************)
EXTENDS Integers, Sequences, FiniteSets, TLC

(***************************************************************************)
(* Bounds of the model.                                                    *)
(***************************************************************************)
\* load pollers that may be alive at once before further loads are held back
MaxLoads == 1
\* provider switches carried out in one run
MaxSwitches == 2
\* chunks a download reads before the body ends
MaxChunks == 2
\* custom-API dialogs that may be open at once
MaxDialogs == 1
\* samples in a capture buffer handed to the encoder
MaxSamples == 3

(***************************************************************************)
(* Values.  Option<String> is a string, None being NONE.                   *)
(***************************************************************************)
NONE == "<none>"

\* config.rs: enum TranscriptionService
Api == "Api"
Local == "Local"

\* ui.rs: enum State
Idle == "Idle"
Recording == "Recording"
Processing == "Processing"

\* config.rs: API_PRESETS
API_PRESETS ==
    << [id |-> "groq", label |-> "Groq",
        base_url |-> "https://api.groq.com/openai/v1",
        default_model |-> "whisper-large-v3-turbo", needs_key |-> TRUE],
       [id |-> "ollama", label |-> "Ollama",
        base_url |-> "http://localhost:11434/v1",
        default_model |-> "whisper", needs_key |-> FALSE],
       [id |-> "openrouter", label |-> "OpenRouter",
        base_url |-> "https://openrouter.ai/api/v1",
        default_model |-> "openai/whisper-1", needs_key |-> TRUE],
       [id |-> "lmstudio", label |-> "LM Studio",
        base_url |-> "http://localhost:1234/v1",
        default_model |-> "whisper-1", needs_key |-> FALSE] >>

\* config.rs: LOCAL_MODEL_PRESETS
LOCAL_MODEL_PRESETS ==
    << [id |-> "local-tiny", label |-> "Tiny", file_name |-> "ggml-tiny.en.bin"],
       [id |-> "local-base", label |-> "Base", file_name |-> "ggml-base.en.bin"],
       [id |-> "local-small", label |-> "Small", file_name |-> "ggml-small.en.bin"],
       [id |-> "local-medium", label |-> "Medium", file_name |-> "ggml-medium.en.bin"] >>

\* config.rs: DEFAULT_LOCAL_MODEL
DEFAULT_LOCAL_MODEL == "local-tiny"

ApiPresetIds == {API_PRESETS[i].id : i \in DOMAIN API_PRESETS}
LocalModelIds == {LOCAL_MODEL_PRESETS[i].id : i \in DOMAIN LOCAL_MODEL_PRESETS}
LocalFileNames == {LOCAL_MODEL_PRESETS[i].file_name : i \in DOMAIN LOCAL_MODEL_PRESETS}

\* config.rs: find_preset (only used where the id is known to be a preset id)
find_preset(id) == CHOOSE p \in {API_PRESETS[i] : i \in DOMAIN API_PRESETS} : p.id = id

\* config.rs: find_local_model
find_local_model(id) ==
    CHOOSE m \in {LOCAL_MODEL_PRESETS[i] : i \in DOMAIN LOCAL_MODEL_PRESETS} : m.id = id

\* download_and_load_model: model_path.with_extension("bin.part")
part_path(file_name) == file_name \o ".part"

\* the settings key of a provider's remembered key: format!("api_key_{}", preset.id)
api_key_setting(id) == "api_key_" \o id

SettingKeys ==
    {"transcription_mode", "api_custom_url", "api_custom_key", "api_custom_model"}
        \cup {api_key_setting(id) : id \in ApiPresetIds}

(***************************************************************************)
(* Inputs the environment may supply.                                      *)
(***************************************************************************)
\* the process-level key (API_KEY / GROQ_API_KEY), when set
ENV_KEY == "env-key"
\* a key remembered in the settings table for the groq preset
GROQ_SAVED_KEY == "groq-saved-key"
\* what a user may type or send as custom endpoint parameters
CUSTOM_URL == "https://custom.example/v1"
CUSTOM_MODEL == "custom-model"
CUSTOM_KEY == "custom-key"

\* provider ids a user selects in the menu (a subset of the menu's entries)
ApiChoices == {"groq", "ollama"}
LocalChoices == {"local-tiny", "local-base"}
ModeChoices == ApiChoices \cup LocalChoices \cup {"custom"}

\* Config::load: the defaults when the variables are unset
DEFAULT_BASE_URL == "https://api.groq.com/openai/v1"
DEFAULT_API_MODEL == "whisper-large-v3-turbo"

VARIABLES
    state,      \* ui.rs: state (Rc<RefCell<State>>)
    runtime,    \* ui.rs: runtime (Rc<RefCell<RuntimeState>>)
    settings,   \* the settings table behind Db::get_setting / Db::set_setting
    config,     \* config.rs: Config (fixed for the life of the process)
    files,      \* names of the files present in config.models_dir
    recorder,   \* audio.rs: Recorder (stream held, samples captured)
    requests,   \* transcription threads with their result channel and poller
    loads,      \* model-load threads with their result channel and poller
    downloads,  \* download threads with their message channel and poller
    dialogs,    \* custom-API dialogs currently open
    panicked,   \* a handler panicked (Option::unwrap on None)
    switches,   \* provider switches carried out so far (bounded by MaxSwitches)
    last        \* the handler that ran last: what it found, what it showed

vars == << state, runtime, settings, config, files, recorder, requests, loads,
           downloads, dialogs, panicked, switches, last >>


(***************************************************************************)
(* Startup: build_ui resolves the initial provider and loads the model.    *)
(***************************************************************************)
\* or_else with the bug of preferring the fallback to the value
or_else_fallback_first(a, b) == IF b # NONE THEN b ELSE a

\* Option::or_else / unwrap_or_else
or_else(a, b) == IF a # NONE THEN a ELSE b

\* build_ui: (initial_service, initial_provider, initial_base_url,
\* initial_api_key, initial_api_model) from the settings table and Config
resolve_initial(db, cfg) ==
    LET db_provider == db["transcription_mode"] IN
    CASE db_provider = "local" ->
            [active_service |-> Local,
             active_provider |-> DEFAULT_LOCAL_MODEL,
             api_base_url |-> cfg.api_base_url,
             api_key |-> cfg.api_key,
             api_model |-> cfg.api_model]
      [] db_provider = "custom" ->
            [active_service |-> Api,
             active_provider |-> "custom",
             api_base_url |-> or_else(db["api_custom_url"], cfg.api_base_url),
             api_key |-> or_else(db["api_custom_key"], cfg.api_key),
             api_model |-> or_else(db["api_custom_model"], cfg.api_model)]
      [] db_provider \in ApiPresetIds ->
            LET preset == find_preset(db_provider) IN
            [active_service |-> Api,
             active_provider |-> db_provider,
             api_base_url |-> preset.base_url,
             api_key |-> IF preset.needs_key
                           THEN or_else(db[api_key_setting(preset.id)], cfg.api_key)
                           ELSE NONE,
             api_model |-> preset.default_model]
      [] db_provider \in LocalModelIds ->
            [active_service |-> Local,
             active_provider |-> db_provider,
             api_base_url |-> cfg.api_base_url,
             api_key |-> cfg.api_key,
             api_model |-> cfg.api_model]
      [] db_provider = NONE ->
            [active_service |-> cfg.transcription_service,
             active_provider |-> IF cfg.transcription_service = Local
                                   THEN DEFAULT_LOCAL_MODEL ELSE "groq",
             api_base_url |-> cfg.api_base_url,
             api_key |-> cfg.api_key,
             api_model |-> cfg.api_model]
      [] OTHER ->
            \* unknown provider in the table: fall back to the env var config
            [active_service |-> cfg.transcription_service,
             active_provider |-> "groq",
             api_base_url |-> cfg.api_base_url,
             api_key |-> cfg.api_key,
             api_model |-> cfg.api_model]

\* build_ui: initial_whisper.  load_ok is the outcome of LocalWhisper::new.
initial_whisper(initial, fs, load_ok) ==
    IF initial.active_service = Local
      THEN LET lm == IF initial.active_provider \in LocalModelIds
                       THEN find_local_model(initial.active_provider)
                       ELSE LOCAL_MODEL_PRESETS[2]
           IN IF lm.file_name \in fs /\ load_ok THEN lm.file_name ELSE NONE
      ELSE NONE

\* build_ui: RuntimeState as constructed at startup
initial_runtime(db, cfg, fs, load_ok) ==
    LET initial == resolve_initial(db, cfg) IN
    [active_service |-> initial.active_service,
     active_provider |-> initial.active_provider,
     api_base_url |-> initial.api_base_url,
     api_key |-> initial.api_key,
     api_model |-> initial.api_model,
     local_whisper |-> initial_whisper(initial, fs, load_ok),
     downloading |-> FALSE]

\* Config::load: a process configuration with the default URL and model
config_with(service, key) ==
    [transcription_service |-> service,
     api_base_url |-> DEFAULT_BASE_URL,
     api_key |-> key,
     api_model |-> DEFAULT_API_MODEL]

\* a settings table holding a mode, a remembered groq key, and nothing else
settings_with(mode, groq_key) ==
    [k \in SettingKeys |->
        CASE k = "transcription_mode" -> mode
          [] k = api_key_setting("groq") -> groq_key
          [] OTHER -> NONE]

\* the installations a run starts from: the process configuration and the
\* settings table found at startup
Installations ==
    { [config |-> config_with(Api, NONE), settings |-> settings_with(NONE, NONE)],
      [config |-> config_with(Api, ENV_KEY), settings |-> settings_with(NONE, NONE)],
      [config |-> config_with(Local, ENV_KEY), settings |-> settings_with(NONE, NONE)] }

\* the model files the process may find at startup
InitFiles == {{}, {"ggml-tiny.en.bin"}}

\* Config::load: the process configuration read from the environment
config_of(service, url, key, model) ==
    [transcription_service |-> service,
     api_base_url |-> url,
     api_key |-> key,
     api_model |-> model]

\* API_BASE_URL and API_MODEL, when set
ENV_URL == "https://env.example/v1"
ENV_MODEL == "env-model"

\* the process configurations Config::load may return
Configs ==
    { config_of(service, url, key, model) :
        service \in {Api, Local},
        url \in {DEFAULT_BASE_URL, ENV_URL},
        key \in {NONE, ENV_KEY},
        model \in {DEFAULT_API_MODEL, ENV_MODEL} }

\* what the settings table may hold under transcription_mode at startup
SavedModes ==
    {NONE, "local", "custom", "no-such-provider"} \cup ApiPresetIds \cup LocalModelIds

\* the settings tables build_ui may find
SettingsTables ==
    { [k \in SettingKeys |->
          CASE k = "transcription_mode" -> mode
            [] k = "api_custom_url" -> url
            [] k = "api_custom_key" -> key
            [] k = "api_custom_model" -> model
            [] k = api_key_setting("groq") -> groq_key
            [] OTHER -> NONE] :
        mode \in SavedModes,
        url \in {NONE, CUSTOM_URL},
        key \in {NONE, CUSTOM_KEY},
        model \in {NONE, CUSTOM_MODEL},
        groq_key \in {NONE, GROQ_SAVED_KEY} }

\* RuntimeState before build_ui has constructed it
NoRuntime ==
    [active_service |-> NONE, active_provider |-> NONE, api_base_url |-> NONE,
     api_key |-> NONE, api_model |-> NONE, local_whisper |-> NONE,
     downloading |-> FALSE]

\* main: the configuration is loaded, the window is not built yet
MainInit ==
    /\ config \in Configs
    /\ settings \in SettingsTables
    /\ files \in InitFiles
    /\ runtime = NoRuntime
    /\ state = Idle
    /\ recorder = [stream |-> FALSE, samples |-> FALSE]
    /\ requests = {}
    /\ loads = [f \in LocalFileNames |-> 0]
    /\ downloads = {}
    /\ dialogs = 0
    /\ panicked = FALSE
    /\ switches = 0
    /\ last = [op |-> "main", arg |-> NONE, from |-> Idle, freed |-> FALSE,
               shown |-> NONE, left |-> {}, kept |-> FALSE, calls |-> << >>]

\* build_ui: resolves the initial provider and constructs RuntimeState
build_ui ==
    /\ last.op = "main"
    /\ \E load_ok \in BOOLEAN :
          runtime' = initial_runtime(settings, config, files, load_ok)
    /\ last' = [last EXCEPT !.op = "build_ui"]
    /\ UNCHANGED << state, settings, config, files, recorder, requests, loads,
                    downloads, dialogs, panicked, switches >>

\* startup alone, from every process configuration and settings table
StartupSpec == MainInit /\ [][build_ui]_vars

\* the state build_ui constructs from an installation and the files on disk
Startup(installs, file_sets) ==
    /\ \E inst \in installs :
         /\ config = inst.config
         /\ settings = inst.settings
    /\ files \in file_sets
    /\ \E load_ok \in BOOLEAN :
          runtime = initial_runtime(settings, config, files, load_ok)
    /\ state = Idle
    /\ recorder = [stream |-> FALSE, samples |-> FALSE]
    /\ requests = {}
    /\ loads = [f \in LocalFileNames |-> 0]
    /\ downloads = {}
    /\ dialogs = 0
    /\ panicked = FALSE
    /\ switches = 0
    /\ last = [op |-> "build_ui", arg |-> NONE, from |-> Idle, freed |-> FALSE,
               shown |-> NONE, left |-> {}, kept |-> FALSE, calls |-> << >>]

\* the installations with no process-level key or with the Local service
\* are started with each of InitFiles, the others with an empty directory
Init ==
    \/ Startup({inst \in Installations :
                   \/ inst.config.api_key = NONE
                   \/ inst.config.transcription_service = Local}, InitFiles)
    \/ Startup({inst \in Installations :
                   /\ inst.config.api_key # NONE
                   /\ inst.config.transcription_service = Api}, {{}})

(***************************************************************************)
(* History.  Of the handler that ran last, other than a custom-API handler *)
(* that returned at its validation or a cancelled dialog: its name (op),   *)
(* what it did (arg), the State it found (from), whether it dropped a      *)
(* resident model and deleted that model's file (freed), whether it moved  *)
(* the selection from a local model to an API provider and left that       *)
(* model's file on disk (kept), the text it put on the status label        *)
(* (shown, NONE when it set none), and the calls it made to the history    *)
(* table, the clipboard and the paste simulation (calls).  Over the run:   *)
(* the local models that were left for another local model and have not    *)
(* been selected since (left).                                             *)
(***************************************************************************)
Record(op, arg, shown, calls) ==
    last' = [op |-> op, arg |-> arg, from |-> state,
             calls |-> calls,
             kept |-> /\ runtime.active_service = Local
                      /\ runtime'.active_service = Api
                      /\ find_local_model(runtime.active_provider).file_name \in files',
             freed |-> /\ runtime.local_whisper # NONE
                       /\ runtime.local_whisper \in files
                       /\ runtime'.local_whisper = NONE
                       /\ runtime.local_whisper \notin files',
             shown |-> shown,
             left |-> LET was == IF /\ op = "mode_action"
                                    /\ runtime.active_service = Local
                                    /\ runtime'.active_service = Local
                                    /\ runtime.active_provider \in LocalModelIds
                                    /\ runtime'.active_provider # runtime.active_provider
                                   THEN last.left \cup {runtime.active_provider}
                                   ELSE last.left
                      IN IF runtime'.active_service = Local
                           THEN was \ {runtime'.active_provider}
                           ELSE was]

\* a handler that calls none of the collaborators
Note(op, arg, shown) == Record(op, arg, shown, << >>)

(***************************************************************************)
(* audio.rs: Recorder.                                                     *)
(***************************************************************************)
StartOutcomes == {"ok", "no_device", "stream_error"}

\* Recorder::start with the bug of storing the stream before play() fails
Recorder_start_keeps_failed_stream(rec, outcome) ==
    CASE outcome = "no_device" -> [rec |-> rec, ok |-> FALSE]
      [] outcome = "stream_error" ->
            [rec |-> [stream |-> TRUE, samples |-> FALSE], ok |-> FALSE]
      [] OTHER -> [rec |-> [stream |-> TRUE, samples |-> FALSE], ok |-> TRUE]

\* Recorder::start.  An error before samples.clear() leaves the recorder as
\* it was; an error after it (build_input_stream, play) has cleared the
\* samples and stored no stream.
Recorder_start(rec, outcome) ==
    CASE outcome = "no_device" -> [rec |-> rec, ok |-> FALSE]
      [] outcome = "stream_error" ->
            [rec |-> [rec EXCEPT !.samples = FALSE], ok |-> FALSE]
      [] OTHER -> [rec |-> [stream |-> TRUE, samples |-> FALSE], ok |-> TRUE]

\* Recorder::stop with the bug of returning Ok for an empty capture
Recorder_stop_always_ok(rec) ==
    [rec |-> [rec EXCEPT !.stream = FALSE], ok |-> TRUE]

\* Recorder::stop: drops the stream; Err when no samples were captured
Recorder_stop(rec) ==
    [rec |-> [rec EXCEPT !.stream = FALSE], ok |-> rec.samples]

\* f32 samples are written as a number of eighths: v stands for v / 8.
\* The samples below, their sums and halves and their products with
\* i16::MAX are exact in f32.
One == 8
I16_MAX == 32767

\* the samples a callback may deliver: -1.5, -1, -0.25, 0, 0.25, 1, 1.5
SampleValues == {-12, -8, -2, 0, 2, 8, 12}

\* the channel count Recorder::new read from the default input config
ChannelCounts == {1, 2}

\* the buffers Recorder::stop may find: the stream the samples come from is
\* built by start() from the default input config of that moment, which
\* need not have the channel count new() stored
CaptureBuffers ==
    UNION { [1..n -> SampleValues] : n \in 1..MaxSamples }

\* chunk.iter().sum::<f32>() over samples[from..to]
RECURSIVE chunk_sum(_, _, _)
chunk_sum(samples, from, to) ==
    IF from > to THEN 0 ELSE samples[from] + chunk_sum(samples, from + 1, to)

\* the smaller of two numbers
min(a, b) == IF a < b THEN a ELSE b

\* samples.chunks(channels).map(|chunk| sum / chunk.len()): the last chunk
\* is shorter when the length is no multiple of channels
RECURSIVE chunks_mean(_, _, _)
chunks_mean(samples, channels, from) ==
    IF from > Len(samples) THEN << >>
    ELSE LET to == min(from + channels - 1, Len(samples)) IN
         << chunk_sum(samples, from, to) \div (to - from + 1) >>
             \o chunks_mean(samples, channels, to + 1)

\* Recorder::stop: the mono samples
to_mono(samples, channels) ==
    IF channels > 1 THEN chunks_mean(samples, channels, 1) ELSE samples

\* f32::clamp(-1.0, 1.0)
clamp(v) == IF v < -One THEN -One ELSE IF v > One THEN One ELSE v

\* `as i16` of an f32 within the range of i16: the fraction is dropped
as_i16(product) ==
    IF product >= 0 THEN product \div One ELSE -((-product) \div One)

\* Recorder::stop: (sample.clamp(-1.0, 1.0) * i16::MAX as f32) as i16
to_i16(sample) == as_i16(clamp(sample) * I16_MAX)

\* Recorder::stop: the samples written to the WAV container
encode(mono) == [i \in DOMAIN mono |-> to_i16(mono[i])]

\* the cpal input callback: extends the samples while the stream is held
audio_callback ==
    /\ ~panicked
    /\ recorder.stream
    /\ ~recorder.samples
    /\ recorder' = [recorder EXCEPT !.samples = TRUE]
    /\ UNCHANGED << state, runtime, settings, config, files, requests, loads,
                    downloads, dialogs, panicked, switches >>
    /\ UNCHANGED last

(***************************************************************************)
(* ui.rs: button.connect_clicked.                                          *)
(***************************************************************************)
\* the API key guard's needs_key: find_preset(..).map(|p| p.needs_key).unwrap_or(true)
needs_key_check(rt) ==
    IF rt.active_provider \in ApiPresetIds
      THEN find_preset(rt.active_provider).needs_key
      ELSE TRUE

\* idle_guard with the bug of leaving out the API key guard
idle_guard_without_key_guard(rt) ==
    CASE rt.downloading -> "Downloading model..."
      [] rt.active_service = Local /\ rt.local_whisper = NONE -> "No local model loaded"
      [] OTHER -> NONE

\* idle_guard with the bug of leaving out the local model guard
idle_guard_without_model_guard(rt) ==
    CASE rt.downloading -> "Downloading model..."
      [] rt.active_service = Api /\ needs_key_check(rt) /\ rt.api_key = NONE ->
            "No API key set"
      [] OTHER -> NONE

\* the guards of the Idle branch, in the order the handler tests them:
\* the status text of the first one that rejects the click, or NONE
idle_guard(rt) ==
    CASE rt.downloading -> "Downloading model..."
      [] rt.active_service = Local /\ rt.local_whisper = NONE -> "No local model loaded"
      [] rt.active_service = Api /\ needs_key_check(rt) /\ rt.api_key = NONE ->
            "No API key set"
      [] OTHER -> NONE

\* State::Idle branch
click_idle ==
    /\ state = Idle
    /\ UNCHANGED << runtime, settings, config, files, requests, loads, downloads,
                    dialogs, panicked, switches >>
    /\ IF idle_guard(runtime) # NONE
         THEN /\ UNCHANGED << state, recorder >>
              /\ Note("click", "rejected", idle_guard(runtime))
         ELSE \E outcome \in StartOutcomes :
                LET started == Recorder_start(recorder, outcome) IN
                /\ recorder' = started.rec
                /\ IF started.ok
                     THEN /\ state' = Recording
                          /\ Note("click", "started", "Recording...")
                     ELSE /\ UNCHANGED state
                          /\ Note("click", "start_failed", "Err: start")

\* the values the Recording branch clones out of RuntimeState for the
\* thread it spawns, with the URL the thread posts to (NONE until it does)
\* and the thread's result ("pending" until it is sent)
new_request(rt, reqs) ==
    [id |-> CHOOSE i \in 1..(Cardinality(reqs) + 1) : \A r \in reqs : r.id # i,
     service |-> rt.active_service,
     provider |-> rt.active_provider,
     base_url |-> IF rt.active_service = Api THEN rt.api_base_url ELSE NONE,
     api_key |-> IF rt.active_service = Api
                   THEN (IF rt.api_key = NONE THEN "" ELSE rt.api_key)
                   ELSE NONE,
     model |-> IF rt.active_service = Api THEN rt.api_model ELSE NONE,
     whisper |-> IF rt.active_service = Local THEN rt.local_whisper ELSE NONE,
     endpoint |-> NONE,
     result |-> "pending"]

\* State::Recording branch
click_recording ==
    /\ state = Recording
    /\ UNCHANGED << runtime, settings, config, files, loads, downloads, dialogs,
                    switches >>
    /\ LET stopped == Recorder_stop(recorder) IN
       /\ recorder' = stopped.rec
       /\ IF ~stopped.ok
            THEN /\ state' = Idle
                 /\ UNCHANGED << requests, panicked >>
                 /\ Note("click", "stop_failed", "Err: stop")
            ELSE /\ state' = Processing
                 /\ IF runtime.active_service = Local /\ runtime.local_whisper = NONE
                      THEN \* rt.local_whisper.clone().unwrap() on None
                           /\ panicked' = TRUE
                           /\ UNCHANGED requests
                      ELSE /\ requests' = requests \cup {new_request(runtime, requests)}
                           /\ UNCHANGED panicked
                 /\ Note("click", "dispatched", "Transcribing...")

\* click_processing with the bug of cancelling the request in flight
click_processing_cancels ==
    /\ state = Processing
    /\ state' = Idle
    /\ requests' = {}
    /\ UNCHANGED << runtime, settings, config, files, recorder, loads, downloads,
                    dialogs, panicked, switches >>
    /\ Note("click", "ignored", NONE)

\* click_processing with the bug of dispatching the recording again
click_processing_redispatches ==
    /\ state = Processing
    /\ requests' = requests \cup {new_request(runtime, requests)}
    /\ UNCHANGED << state, runtime, settings, config, files, recorder, loads,
                    downloads, dialogs, panicked, switches >>
    /\ Note("click", "ignored", NONE)

\* State::Processing branch: State::Processing => {}
click_processing ==
    /\ state = Processing
    /\ UNCHANGED << state, runtime, settings, config, files, recorder, requests,
                    loads, downloads, dialogs, panicked, switches >>
    /\ Note("click", "ignored", NONE)

button_clicked ==
    /\ ~panicked
    /\ (click_idle \/ click_recording \/ click_processing)

(***************************************************************************)
(* The transcription thread and the result poller of the Recording branch. *)
(***************************************************************************)
\* what the transcribed text may be
Texts == {"hello world", "bonjour"}

\* api.rs: GROQ_URL
GROQ_URL == "https://api.groq.com/openai/v1/audio/transcriptions"

\* api::transcribe: client.post(GROQ_URL).  The thread passes its base_url
\* first, but transcribe as it stands takes (api_key, model, wav_data) and
\* posts to the constant.
transcribe_post_url(base_url) == GROQ_URL

\* reqwest: StatusCode::is_success
is_success(status) == 200 <= status /\ status <= 299

\* the value a JSON document has at ["text"]: a string, null, a number, or
\* nothing (serde_json's Index gives Null for a missing key and for a
\* document that is no object)
JsonTexts ==
    { [kind |-> "absent", str |-> ""], [kind |-> "null", str |-> ""],
      [kind |-> "number", str |-> ""], [kind |-> "string", str |-> ""],
      [kind |-> "string", str |-> "hello world"], [kind |-> "string", str |-> "err"] }

\* response bodies: no JSON at all, a JSON array, or a JSON object
Bodies ==
    { [parse |-> "garbage", text |-> [kind |-> "absent", str |-> ""]],
      [parse |-> "array", text |-> [kind |-> "absent", str |-> ""]] }
      \cup { [parse |-> "object", text |-> t] : t \in JsonTexts }

\* the status codes a server may answer with
Statuses == {200, 201, 204, 299, 301, 400, 401, 404, 429, 500, 503}

\* what send() may come back with: a transport failure, or a response
Responses ==
    { [sent |-> FALSE, status |-> 0,
       body |-> [parse |-> "garbage", text |-> [kind |-> "absent", str |-> ""]]] }
      \cup { [sent |-> TRUE, status |-> st, body |-> b] : st \in Statuses, b \in Bodies }

\* Result<String, String>, with the number of requests sent to produce it
Ok(text, n) == [ok |-> TRUE, value |-> text, attempts |-> n]
Err(e, n) == [ok |-> FALSE, value |-> e, attempts |-> n]

\* api::transcribe with the bug of not testing the status
transcribe_ignores_status(resp) ==
    IF ~resp.sent THEN Err("Request failed", 1)
    ELSE IF resp.body.parse = "garbage" THEN Err("JSON parse error", 1)
    ELSE IF resp.body.text.kind = "string" THEN Ok(resp.body.text.str, 1)
    ELSE Err("No 'text' field in response", 1)

\* api::transcribe, given what its one send() comes back with
transcribe(resp) ==
    IF ~resp.sent THEN Err("Request failed", 1)
    ELSE IF ~is_success(resp.status) THEN Err("API error", 1)
    ELSE IF resp.body.parse = "garbage" THEN Err("JSON parse error", 1)
    ELSE IF resp.body.text.kind = "string" THEN Ok(resp.body.text.str, 1)
    ELSE Err("No 'text' field in response", 1)

\* the spawned thread: sends Ok(text) or Err(e), or dies without sending.
\* An Api thread that sends a result has posted to transcribe's URL.
transcribe_thread ==
    /\ ~panicked
    /\ UNCHANGED << state, runtime, settings, config, files, recorder, loads,
                    downloads, dialogs, panicked, switches >>
    /\ \E r \in requests :
         /\ r.result = "pending"
         /\ \E res \in Texts \cup {"err", "dropped"} :
              requests' = (requests \ {r}) \cup
                  {[r EXCEPT !.result = res,
                             !.endpoint = IF r.service = Api /\ res # "dropped"
                                            THEN transcribe_post_url(r.base_url)
                                            ELSE NONE]}
    /\ UNCHANGED last

\* a call to one of the collaborators, with the text it is passed
call(fn, text) == [fn |-> fn, text |-> text]

\* ok_branch_calls with the bug of skipping the history insert
ok_branch_calls_without_insert(text) == << call("copy_to_clipboard", text) >>

\* the calls of the Ok(Ok(text)) branch: db.insert(&text), then
\* copy_to_clipboard(&text); input::simulate_paste is called nowhere
ok_branch_calls(text) ==
    << call("Db::insert", text), call("copy_to_clipboard", text) >>

\* err_branch_calls with the bug of copying the error to the clipboard
err_branch_calls_with_copy == << call("copy_to_clipboard", "err") >>

\* the calls of the Ok(Err(e)) branch: none
err_branch_calls == << >>

\* disconnected_branch_calls with the bug of recording an empty transcript
disconnected_branch_calls_with_insert == << call("Db::insert", "") >>

\* the calls of the branch for a disconnected channel: none
disconnected_branch_calls == << >>

\* result_poller with the bug of returning Continue after an outcome: the
\* timeout stays and sets Idle again at its next tick
result_poller_keeps_polling ==
    /\ ~panicked
    /\ UNCHANGED << runtime, settings, config, files, recorder, loads, downloads,
                    dialogs, panicked, switches >>
    /\ \E r \in requests :
         /\ r.result # "pending"
         /\ requests' = requests
         /\ state' = Idle
         /\ \/ /\ r.result \in Texts
               /\ \E clipboard_ok \in BOOLEAN :
                    Record("result_poller", "ok",
                           IF clipboard_ok THEN "Copied!" ELSE "Error!",
                           ok_branch_calls(r.result))
            \/ /\ r.result = "err"
               /\ Record("result_poller", "err", "Error!", err_branch_calls)
            \/ /\ r.result = "dropped"
               /\ Record("result_poller", "dropped", NONE, disconnected_branch_calls)

\* result_poller with the bug of treating a disconnected channel as an
\* empty one: the timeout goes on polling
result_poller_waits_on_disconnected ==
    /\ ~panicked
    /\ UNCHANGED << runtime, settings, config, files, recorder, loads, downloads,
                    dialogs, panicked, switches >>
    /\ \E r \in requests :
         /\ r.result \notin {"pending", "dropped"}
         /\ requests' = requests \ {r}
         /\ state' = Idle
         /\ \/ /\ r.result \in Texts
               /\ \E clipboard_ok \in BOOLEAN :
                    Record("result_poller", "ok",
                           IF clipboard_ok THEN "Copied!" ELSE "Error!",
                           ok_branch_calls(r.result))
            \/ /\ r.result = "err"
               /\ Record("result_poller", "err", "Error!", err_branch_calls)

\* the glib timeout of the Recording branch, when try_recv does not say Empty
result_poller ==
    /\ ~panicked
    /\ UNCHANGED << runtime, settings, config, files, recorder, loads, downloads,
                    dialogs, panicked, switches >>
    /\ \E r \in requests :
         /\ r.result # "pending"
         /\ requests' = requests \ {r}
         /\ state' = Idle
         /\ \/ /\ r.result \in Texts
               /\ \E clipboard_ok \in BOOLEAN :
                    Record("result_poller", "ok",
                           IF clipboard_ok THEN "Copied!" ELSE "Error!",
                           ok_branch_calls(r.result))
            \/ /\ r.result = "err"
               /\ Record("result_poller", "err", "Error!", err_branch_calls)
            \/ /\ r.result = "dropped"
               /\ Record("result_poller", "dropped", NONE, disconnected_branch_calls)

(***************************************************************************)
(* ui.rs: the provider switches.                                           *)
(***************************************************************************)
\* delete_all_local_models with the bug of deleting the first preset's file only
delete_all_local_models_first_only(fs) == fs \ {LOCAL_MODEL_PRESETS[1].file_name}

\* delete_all_local_models: removes the artifact of every local preset
delete_all_local_models(fs) == fs \ LocalFileNames

\* Db::set_setting
set_setting(db, key, value) == [db EXCEPT ![key] = value]

\* switch_to_preset: the RuntimeState update
switch_to_preset_runtime(rt, db, preset) ==
    [rt EXCEPT
        !.active_service = Api,
        !.active_provider = preset.id,
        !.api_base_url = preset.base_url,
        !.api_model = preset.default_model,
        !.api_key = IF preset.needs_key
                      THEN (IF db[api_key_setting(preset.id)] # NONE
                              THEN db[api_key_setting(preset.id)]
                              ELSE @)   \* else keep existing api_key
                      ELSE NONE,
        !.local_whisper = NONE]

\* switch_to_preset
switch_to_preset(preset) ==
    /\ runtime' = switch_to_preset_runtime(runtime, settings, preset)
    /\ files' = delete_all_local_models(files)
    /\ settings' = set_setting(settings, "transcription_mode", preset.id)
    /\ UNCHANGED << loads, downloads, dialogs >>
    /\ Note("mode_action", preset.id, preset.label \o " mode")

\* the load pollers alive
loads_in_flight(ls) ==
    LET RECURSIVE sum(_)
        sum(S) == IF S = {} THEN 0
                  ELSE LET f == CHOOSE f \in S : TRUE IN ls[f] + sum(S \ {f})
    IN sum(DOMAIN ls)

\* load_whisper_model with the bug of spawning no load thread
load_whisper_model_not_started(ls, path) == ls

\* load_whisper_model: spawns the load thread for the file and its poller
load_whisper_model(ls, path) == [ls EXCEPT ![path] = @ + 1]

\* download_and_load_model: spawns the download thread and its poller
download_and_load_model(ds, path) ==
    ds \cup {[id |-> CHOOSE i \in 1..(Cardinality(ds) + 1) : \A d \in ds : d.id # i,
              path |-> path, pc |-> "request", downloaded |-> 0, chan |-> << >>]}

\* switch_to_local: the files left after deleting the previous preset's model
switch_to_local_files(rt, fs, local_preset) ==
    IF /\ rt.active_service = Local
       /\ rt.active_provider \in LocalModelIds
       /\ rt.active_provider # local_preset.id
      THEN fs \ {find_local_model(rt.active_provider).file_name}
      ELSE fs

\* switch_to_local: the RuntimeState set before the model is acquired
switch_to_local_runtime(rt, local_preset) ==
    [rt EXCEPT !.active_service = Local,
               !.active_provider = local_preset.id,
               !.local_whisper = NONE]

\* switch_to_local
switch_to_local(local_preset) ==
    LET fs == switch_to_local_files(runtime, files, local_preset)
        rt == switch_to_local_runtime(runtime, local_preset)
    IN
    /\ files' = fs
    /\ settings' = set_setting(settings, "transcription_mode", local_preset.id)
    /\ UNCHANGED dialogs
    /\ IF local_preset.file_name \in fs
         THEN /\ loads_in_flight(loads) < MaxLoads
              /\ runtime' = rt
              /\ loads' = load_whisper_model(loads, local_preset.file_name)
              /\ UNCHANGED downloads
              /\ Note("mode_action", local_preset.id, "Loading model...")
         ELSE /\ runtime' = [rt EXCEPT !.downloading = TRUE]
              /\ downloads' = download_and_load_model(downloads, local_preset.file_name)
              /\ UNCHANGED loads
              /\ Note("mode_action", local_preset.id, "Downloading model...")

\* show_custom_api_dialog: builds and presents the dialog
show_custom_api_dialog ==
    /\ dialogs < MaxDialogs
    /\ dialogs' = dialogs + 1
    /\ UNCHANGED << runtime, settings, files, loads, downloads >>
    /\ Note("mode_action", "custom", NONE)

\* mode_action_guard with the bug of leaving out the same-provider return
mode_action_guard_without_same(st, rt, chosen) ==
    CASE st # Idle -> "busy"
      [] rt.downloading -> "downloading"
      [] OTHER -> NONE

\* the guards of mode_action.connect_activate: why the handler returns
\* before switching, or NONE when it goes on
mode_action_guard(st, rt, chosen) ==
    CASE st # Idle -> "busy"
      [] rt.downloading -> "downloading"
      [] chosen = rt.active_provider -> "same"
      [] OTHER -> NONE

\* mode_action.connect_activate
mode_action ==
    /\ ~panicked
    /\ UNCHANGED << state, config, recorder, requests, panicked >>
    /\ \E chosen \in ModeChoices :
         IF mode_action_guard(state, runtime, chosen) # NONE
           THEN /\ UNCHANGED << runtime, settings, files, loads, downloads,
                                dialogs, switches >>
                /\ Note("mode_action", mode_action_guard(state, runtime, chosen), NONE)
           ELSE IF chosen = "custom"
                  THEN show_custom_api_dialog /\ UNCHANGED switches
                  ELSE /\ switches < MaxSwitches
                       /\ switches' = switches + 1
                       /\ IF chosen \in LocalModelIds
                            THEN switch_to_local(find_local_model(chosen))
                            ELSE switch_to_preset(find_preset(chosen))

\* the RuntimeState update of a switch to a custom remote (the dialog's Save
\* and set-api-config make the same assignments)
custom_runtime(rt, url, api_key, model) ==
    [rt EXCEPT
        !.active_service = Api,
        !.active_provider = "custom",
        !.api_base_url = url,
        !.api_key = api_key,
        !.api_model = model,
        !.local_whisper = NONE]

\* the settings written by a switch to a custom remote: the key only if Some
custom_settings(db, url, api_key, model) ==
    LET d1 == set_setting(db, "api_custom_url", url)
        d2 == IF api_key # NONE THEN set_setting(d1, "api_custom_key", api_key) ELSE d1
        d3 == set_setting(d2, "api_custom_model", model)
    IN set_setting(d3, "transcription_mode", "custom")

\* what a user may leave in the dialog's entries
DialogEntries ==
    { [url |-> "", key_text |-> CUSTOM_KEY, model |-> CUSTOM_MODEL],
      [url |-> CUSTOM_URL, key_text |-> CUSTOM_KEY, model |-> ""],
      [url |-> CUSTOM_URL, key_text |-> "", model |-> CUSTOM_MODEL],
      [url |-> CUSTOM_URL, key_text |-> CUSTOM_KEY, model |-> CUSTOM_MODEL] }

\* save_btn.connect_clicked: TRUE when the entries are rejected
save_rejected(url, model) == url = "" \/ model = ""

\* show_custom_api_dialog: save_btn.connect_clicked
dialog_save ==
    /\ ~panicked
    /\ dialogs > 0
    /\ UNCHANGED << state, config, recorder, requests, loads, downloads, panicked >>
    /\ \E entries \in DialogEntries :
         LET url == entries.url
             key_text == entries.key_text
             model == entries.model
         IN
         IF save_rejected(url, model)
           THEN UNCHANGED << runtime, settings, files, dialogs, switches, last >>
           ELSE LET api_key == IF key_text = "" THEN NONE ELSE key_text IN
                /\ switches < MaxSwitches
                /\ switches' = switches + 1
                /\ settings' = custom_settings(settings, url, api_key, model)
                /\ runtime' = custom_runtime(runtime, url, api_key, model)
                /\ files' = delete_all_local_models(files)
                /\ dialogs' = dialogs - 1
                /\ Note("dialog_save", "saved", "Custom API mode")

\* show_custom_api_dialog: cancel_btn.connect_clicked
dialog_cancel ==
    /\ ~panicked
    /\ dialogs > 0
    /\ dialogs' = dialogs - 1
    /\ UNCHANGED << state, runtime, settings, config, files, recorder, requests,
                    loads, downloads, panicked, switches, last >>

\* the JSON parameters set-api-config may be sent: a field that is missing
\* (or a parameter that is no JSON) is NONE
ApiConfigParams ==
    { [base_url |-> NONE, api_key |-> NONE, model |-> CUSTOM_MODEL],
      [base_url |-> CUSTOM_URL, api_key |-> NONE, model |-> NONE],
      [base_url |-> CUSTOM_URL, api_key |-> NONE, model |-> CUSTOM_MODEL],
      [base_url |-> CUSTOM_URL, api_key |-> CUSTOM_KEY, model |-> CUSTOM_MODEL] }

\* api_config_action.connect_activate: TRUE when the handler returns before
\* switching
api_config_rejected(p) == p.base_url = NONE \/ p.model = NONE

\* api_config_action.connect_activate, for the parameter p
api_config_activate(p) ==
    IF api_config_rejected(p)
      THEN UNCHANGED << runtime, settings, files, switches, last >>
      ELSE /\ switches < MaxSwitches
           /\ switches' = switches + 1
           /\ settings' = custom_settings(settings, p.base_url, p.api_key, p.model)
           /\ runtime' = custom_runtime(runtime, p.base_url, p.api_key, p.model)
           /\ files' = delete_all_local_models(files)
           /\ Note("set_api_config", "applied", NONE)

\* api_config_action.connect_activate
set_api_config ==
    /\ ~panicked
    /\ UNCHANGED << state, config, recorder, requests, loads, downloads, dialogs,
                    panicked >>
    /\ \E p \in ApiConfigParams : api_config_activate(p)

\* JSON parameters whose base_url or model is the empty string
EmptyApiConfigParams ==
    { [base_url |-> "", api_key |-> NONE, model |-> CUSTOM_MODEL],
      [base_url |-> CUSTOM_URL, api_key |-> CUSTOM_KEY, model |-> ""] }

\* api_config_action.connect_activate, sent an empty base_url or model
set_api_config_empty ==
    /\ ~panicked
    /\ UNCHANGED << state, config, recorder, requests, loads, downloads, dialogs,
                    panicked >>
    /\ \E p \in EmptyApiConfigParams : api_config_activate(p)

(***************************************************************************)
(* ui.rs: load_whisper_model and download_and_load_model.                  *)
(***************************************************************************)
\* the revert to the default API provider after a failed load or download
revert_to_default(rt) ==
    [rt EXCEPT
        !.active_service = Api,
        !.active_provider = "groq",
        !.api_base_url = API_PRESETS[1].base_url,
        !.api_model = API_PRESETS[1].default_model]

\* what the load thread sends: LocalWhisper::new's Ok or Err, or nothing
\* when the thread dies before sending
LoadOutcomes == {"ok", "err", "disconnected"}

\* load_whisper_model's poller: the RuntimeState after try_recv's answer
load_poller_runtime(rt, path, outcome) ==
    IF outcome = "ok"
      THEN [rt EXCEPT !.local_whisper = path]
      ELSE revert_to_default(rt)

\* load_poller with the bug of resetting the State when a load is received
load_poller_resets_state ==
    /\ ~panicked
    /\ state' = Idle
    /\ UNCHANGED << settings, config, files, recorder, requests, downloads,
                    dialogs, panicked, switches >>
    /\ \E path \in DOMAIN loads, outcome \in LoadOutcomes :
         /\ loads[path] > 0
         /\ loads' = [loads EXCEPT ![path] = @ - 1]
         /\ runtime' = load_poller_runtime(runtime, path, outcome)
         /\ Note("load_poller", outcome,
                 IF outcome = "ok" THEN "Local mode ready" ELSE "Model load failed")

\* load_whisper_model: the thread's outcome reaching the glib timeout
load_poller ==
    /\ ~panicked
    /\ UNCHANGED << state, settings, config, files, recorder, requests, downloads,
                    dialogs, panicked, switches >>
    /\ \E path \in DOMAIN loads, outcome \in LoadOutcomes :
         /\ loads[path] > 0
         /\ loads' = [loads EXCEPT ![path] = @ - 1]
         /\ runtime' = load_poller_runtime(runtime, path, outcome)
         /\ Note("load_poller", outcome,
                 IF outcome = "ok" THEN "Local mode ready" ELSE "Model load failed")

\* tx.send on the download's channel
send(d, msg) == [d EXCEPT !.chan = Append(@, msg)]

\* the download thread, up to File::create(&part_path)
download_request ==
    /\ ~panicked
    /\ UNCHANGED << state, runtime, settings, config, recorder, requests, loads,
                    dialogs, panicked, switches >>
    /\ \E d \in downloads :
         /\ d.pc = "request"
         /\ \/ /\ files' = files \cup {part_path(d.path)}
               /\ downloads' = (downloads \ {d}) \cup {[d EXCEPT !.pc = "loop"]}
               /\ UNCHANGED last
            \* a failed request, a non-success status or a failed create:
            \* remove_file(&part_path) removes the file if one is there
            \/ /\ files' = files \ {part_path(d.path)}
               /\ downloads' = (downloads \ {d}) \cup
                    {send([d EXCEPT !.pc = "done"], [type |-> "Error", n |-> 0])}
               /\ UNCHANGED last

\* the download thread's loop: one read of n > 0 bytes, written and reported
download_chunk ==
    /\ ~panicked
    /\ UNCHANGED << state, runtime, settings, config, files, recorder, requests,
                    loads, dialogs, panicked, switches >>
    /\ \E d \in downloads :
         /\ d.pc = "loop"
         /\ d.downloaded < MaxChunks
         /\ downloads' = (downloads \ {d}) \cup
              {send([d EXCEPT !.downloaded = @ + 1],
                    [type |-> "Progress", n |-> d.downloaded + 1])}
    /\ UNCHANGED last

\* download_fail with the bug of leaving the .part file behind
download_fail_keeps_part ==
    /\ ~panicked
    /\ UNCHANGED << state, runtime, settings, config, files, recorder, requests,
                    loads, dialogs, panicked, switches >>
    /\ \E d \in downloads :
         /\ d.pc = "loop"
         /\ downloads' = (downloads \ {d}) \cup
              {send([d EXCEPT !.pc = "done"], [type |-> "Error", n |-> 0])}
    /\ UNCHANGED last

\* the download thread's loop failing: a read or write error, then the
\* removal of the .part file and the Error message
download_fail ==
    /\ ~panicked
    /\ UNCHANGED << state, runtime, settings, config, recorder, requests, loads,
                    dialogs, panicked, switches >>
    /\ \E d \in downloads :
         /\ d.pc = "loop"
         /\ files' = files \ {part_path(d.path)}
         /\ downloads' = (downloads \ {d}) \cup
              {send([d EXCEPT !.pc = "done"], [type |-> "Error", n |-> 0])}
    /\ UNCHANGED last

\* the download thread at the end of the body: the rename of .part to the
\* final path and Done, or a failed rename, the removal and Error
download_finish ==
    /\ ~panicked
    /\ UNCHANGED << state, runtime, settings, config, recorder, requests, loads,
                    dialogs, panicked, switches >>
    /\ \E d \in downloads :
         /\ d.pc = "loop"
         /\ \/ /\ files' = (files \ {part_path(d.path)}) \cup {d.path}
               /\ downloads' = (downloads \ {d}) \cup
                    {send([d EXCEPT !.pc = "done"], [type |-> "Done", n |-> 0])}
               /\ UNCHANGED last
            \/ /\ files' = files \ {part_path(d.path)}
               /\ downloads' = (downloads \ {d}) \cup
                    {send([d EXCEPT !.pc = "done"], [type |-> "Error", n |-> 0])}
               /\ UNCHANGED last

\* download_poller with the bug of keeping the first message of the batch
download_poller_keeps_first ==
    /\ ~panicked
    /\ UNCHANGED << state, settings, config, files, recorder, requests, dialogs,
                    panicked, switches >>
    /\ \E d \in downloads :
         /\ d.chan # << >>
         /\ LET last_msg == d.chan[1] IN
            \/ /\ last_msg.type = "Progress"
               /\ downloads' = (downloads \ {d}) \cup {[d EXCEPT !.chan = << >>]}
               /\ UNCHANGED << runtime, loads >>
               /\ Note("download_poller", "Progress", "Downloading")
            \/ /\ last_msg.type = "Done"
               /\ loads_in_flight(loads) < MaxLoads
               /\ downloads' = downloads \ {d}
               /\ runtime' = [runtime EXCEPT !.downloading = FALSE]
               /\ loads' = load_whisper_model(loads, d.path)
               /\ Note("download_poller", "Done", "Loading model...")
            \/ /\ last_msg.type = "Error"
               /\ downloads' = downloads \ {d}
               /\ runtime' = [revert_to_default(runtime) EXCEPT !.downloading = FALSE]
               /\ UNCHANGED loads
               /\ Note("download_poller", "Error", "Download failed")

\* download_and_load_model's poller: drains the channel and keeps the last
\* message (a tick that finds the channel empty changes nothing)
download_poller ==
    /\ ~panicked
    /\ UNCHANGED << state, settings, config, files, recorder, requests, dialogs,
                    panicked, switches >>
    /\ \E d \in downloads :
         /\ d.chan # << >>
         /\ LET last_msg == d.chan[Len(d.chan)] IN
            \/ /\ last_msg.type = "Progress"
               /\ downloads' = (downloads \ {d}) \cup {[d EXCEPT !.chan = << >>]}
               /\ UNCHANGED << runtime, loads >>
               /\ Note("download_poller", "Progress", "Downloading")
            \/ /\ last_msg.type = "Done"
               /\ loads_in_flight(loads) < MaxLoads
               /\ downloads' = downloads \ {d}
               /\ runtime' = [runtime EXCEPT !.downloading = FALSE]
               /\ loads' = load_whisper_model(loads, d.path)
               /\ Note("download_poller", "Done", "Loading model...")
            \/ /\ last_msg.type = "Error"
               /\ downloads' = downloads \ {d}
               /\ runtime' = [revert_to_default(runtime) EXCEPT !.downloading = FALSE]
               /\ UNCHANGED loads
               /\ Note("download_poller", "Error", "Download failed")

(***************************************************************************)
(* The specification.                                                      *)
(***************************************************************************)
Next ==
    \/ button_clicked
    \/ audio_callback
    \/ transcribe_thread
    \/ result_poller
    \/ mode_action
    \/ dialog_save
    \/ dialog_cancel
    \/ set_api_config
    \/ load_poller
    \/ download_request
    \/ download_chunk
    \/ download_fail
    \/ download_finish
    \/ download_poller

Spec == Init /\ [][Next]_vars

\* the window built and left alone, for the functions checked on their own
Quiescent ==
    /\ config = config_with(Api, ENV_KEY)
    /\ settings = settings_with(NONE, NONE)
    /\ files = {}
    /\ runtime = initial_runtime(settings, config, files, TRUE)
    /\ state = Idle
    /\ recorder = [stream |-> FALSE, samples |-> FALSE]
    /\ requests = {}
    /\ loads = [f \in LocalFileNames |-> 0]
    /\ downloads = {}
    /\ dialogs = 0
    /\ panicked = FALSE
    /\ switches = 0

\* a call of api::transcribe about to be answered by resp
ApiInit ==
    /\ Quiescent
    /\ \E resp \in Responses :
          last = [op |-> "transcribe", response |-> resp, returned |-> Err("", 0)]

\* api::transcribe runs to its return
api_transcribe ==
    /\ last.op = "transcribe"
    /\ last' = [last EXCEPT !.op = "returned", !.returned = transcribe(last.response)]
    /\ UNCHANGED << state, runtime, settings, config, files, recorder, requests,
                    loads, downloads, dialogs, panicked, switches >>

\* api::transcribe alone, over the answers a server may give
ApiSpec == ApiInit /\ [][api_transcribe]_vars

\* Recorder::stop called on a buffer that is not empty
WavInit ==
    /\ Quiescent
    /\ \E samples \in CaptureBuffers, channels \in ChannelCounts :
          last = [op |-> "stop", samples |-> samples, channels |-> channels,
                  mono |-> << >>, pcm |-> << >>]

\* Recorder::stop: the downmix and the conversion to 16-bit samples
Recorder_stop_encode ==
    /\ last.op = "stop"
    /\ LET mono == to_mono(last.samples, last.channels) IN
       last' = [last EXCEPT !.op = "encoded", !.mono = mono, !.pcm = encode(mono)]
    /\ UNCHANGED << state, runtime, settings, config, files, recorder, requests,
                    loads, downloads, dialogs, panicked, switches >>

\* the encoder alone, over the capture buffers
WavSpec == WavInit /\ [][Recorder_stop_encode]_vars

\* the provider switches alone, set-api-config being sent empty strings too
NextCustom ==
    \/ mode_action
    \/ dialog_save
    \/ dialog_cancel
    \/ set_api_config
    \/ set_api_config_empty

CustomSpec == Init /\ [][NextCustom]_vars

\* glib runs the result poller's timeout every 100 ms until the closure
\* returns Break: a result that has been sent, or a dropped sender, is
\* received.  Nothing makes the transcription thread finish.
FairSpec == Spec /\ WF_vars(result_poller)

\* the handlers and threads that run while a download is alive: the State
\* is Idle for as long as a download is (DownloadOnlyInIdle below), and a
\* click in Idle is refused while the downloading flag is set
NextDownload ==
    \/ mode_action
    \/ dialog_save
    \/ dialog_cancel
    \/ set_api_config
    \/ load_poller
    \/ download_request
    \/ download_chunk
    \/ download_fail
    \/ download_finish
    \/ download_poller

\* glib runs the download poller's timeout every 200 ms and the load
\* poller's every 100 ms until the closure returns Break: a message that has
\* been sent is received.  Nothing makes the download thread finish.
DownloadFairSpec ==
    Init /\ [][NextDownload]_vars /\ WF_vars(download_poller) /\ WF_vars(load_poller)

(***************************************************************************)
(* Properties.                                                             *)
(***************************************************************************)
\* a step of one of the handlers that switch the provider
SwitchStep == mode_action \/ dialog_save \/ set_api_config

\* the files of local models present in the models directory
LocalArtifacts == files \cap LocalFileNames

\* load and download operations whose outcome the UI thread has not received
AcquisitionsInFlight == loads_in_flight(loads) + Cardinality(downloads)

\* C1: every provider-switch operation (to a Remote preset, to a Local
\* model, to a custom remote by the dialog's Save or by set-api-config) is a
\* no-op when the State is not Idle or a download is in progress: it leaves
\* RuntimeState, the settings and the artifact files unchanged.
C1_SwitchIsNoOpUnlessIdle ==
    [][ (SwitchStep /\ (state # Idle \/ runtime.downloading))
            => UNCHANGED << runtime, settings, files >> ]_vars

\* C2: a click starts a recording only when the State is Idle; a click in
\* Processing changes neither the State, nor RuntimeState, nor the request
\* in flight; a click in Recording stops the capture and starts no second
\* one (a capture stream is opened only by a step from Idle to Recording).
C2_TriggerStartsOnlyFromIdle ==
    [][ /\ (state' = Recording /\ state # Recording) => state = Idle
        /\ (recorder'.stream /\ ~recorder.stream) => (state = Idle /\ state' = Recording)
        /\ (state = Processing /\ button_clicked)
              => UNCHANGED << state, runtime, requests, recorder >>
        /\ (state = Recording /\ button_clicked)
              => (~recorder'.stream /\ state' # Recording) ]_vars

\* C2 witness: a click was received in Processing, with a request in flight
C2_ClickedWhileProcessing ==
    /\ last.op = "click" /\ last.arg = "ignored" /\ last.from = Processing
    /\ state = Processing
    /\ requests # {}

\* C3: at most one transcription request is in flight; a transcription
\* thread is spawned only by the step from Recording to Processing, and a
\* click in Processing spawns none.
C3_OneRequestInFlight ==
    [][ /\ Cardinality(requests) <= 1
        /\ Cardinality(requests') <= 1
        /\ (\E r \in requests' : \A q \in requests : q.id # r.id)
              => (state = Recording /\ state' = Processing)
        /\ (state = Processing /\ button_clicked) => requests' = requests ]_vars

\* C3 witness: a click in Processing while the one request is still pending
C3_ClickedWithPendingRequest ==
    /\ last.op = "click" /\ last.arg = "ignored"
    /\ Cardinality(requests) = 1
    /\ \A r \in requests : r.result = "pending"

\* C4: at most one model load or download is in flight: a switch to a Local
\* model starts none while an earlier one has not delivered its outcome.
C4_OneAcquisitionInFlight == AcquisitionsInFlight <= 1

\* the preconditions of the Idle click that fail, each with its reason
FailedPreconditions(rt) ==
    {"Downloading model..." : x \in {1} \cap (IF rt.downloading THEN {1} ELSE {})}
      \cup {"No local model loaded" : x \in {1} \cap
                (IF rt.active_service = Local /\ rt.local_whisper = NONE
                   THEN {1} ELSE {})}
      \cup {"No API key set" : x \in {1} \cap
                (IF /\ rt.active_service = Api
                    /\ rt.active_provider \in ApiPresetIds
                    /\ find_preset(rt.active_provider).needs_key
                    /\ rt.api_key = NONE
                   THEN {1} ELSE {})}

\* C5: a click in Idle moves to Recording only if no download is in
\* progress, a model is resident when the service is Local, and a key is
\* present when the active preset needs one; when a precondition fails the
\* State stays Idle, no capture is started and the status names a
\* precondition that failed; a preset that needs a key and has none shows
\* "No API key set" (when nothing else fails) and stays Idle.
C5_IdleClickPreconditions ==
    [][ (state = Idle /\ button_clicked) =>
          /\ state' = Recording => FailedPreconditions(runtime) = {}
          /\ FailedPreconditions(runtime) # {} =>
                /\ state' = Idle
                /\ recorder' = recorder
                /\ last'.shown \in FailedPreconditions(runtime)
          /\ FailedPreconditions(runtime) = {"No API key set"} =>
                last'.shown = "No API key set" ]_vars

\* C5 witness: groq is active with no key, and a click was rejected for it
C5_RejectedForMissingKey ==
    /\ last.op = "click" /\ last.arg = "rejected" /\ last.shown = "No API key set"
    /\ state = Idle
    /\ runtime.active_provider = "groq"
    /\ runtime.api_key = NONE

\* C6: from startup on, whenever the service is Local and no load or
\* download is in flight, a model is resident.
C6_LocalHasHandle ==
    (runtime.active_service = Local /\ AcquisitionsInFlight = 0)
        => runtime.local_whisper # NONE

\* C7: after a switch to a preset that needs a key the active key is the
\* key saved for that provider when there is one, else the process-level
\* key; after a switch to a preset that needs none there is no active key.
C7_PresetKey ==
    [][ (last'.op = "mode_action" /\ last'.arg \in ApiPresetIds /\ mode_action) =>
          LET preset == find_preset(last'.arg) IN
          runtime'.api_key =
              IF preset.needs_key
                THEN or_else(settings[api_key_setting(preset.id)], config.api_key)
                ELSE NONE ]_vars

\* the last handler carried out a provider switch
SwitchedJustNow ==
    \/ last.op = "mode_action" /\ last.arg \in ApiPresetIds \cup LocalModelIds
    \/ last.op = "dialog_save" /\ last.arg = "saved"
    \/ last.op = "set_api_config" /\ last.arg = "applied"

\* C8: every switch survives a restart: resolve_initial on the settings it
\* left yields the provider id it activated and, for a custom remote, the
\* URL, the key (or the absence of one) and the model it activated.
C8_SwitchSurvivesRestart ==
    SwitchedJustNow =>
        LET initial == resolve_initial(settings, config) IN
        /\ initial.active_provider = runtime.active_provider
        /\ runtime.active_provider = "custom" =>
              /\ initial.api_base_url = runtime.api_base_url
              /\ initial.api_key = runtime.api_key
              /\ initial.api_model = runtime.api_model

\* C9: after a switch from Local model A to another Local model, and until
\* A is selected again, A's file is absent and no model loaded from A is
\* resident.
C9_LeftModelIsGone ==
    \A a \in last.left :
        /\ find_local_model(a).file_name \notin files
        /\ runtime.local_whisper # find_local_model(a).file_name

\* C10: right after a switch to a Remote preset no model is resident and no
\* file of a Local model exists.
C10_PresetSwitchFreesModels ==
    [][ (last'.op = "mode_action" /\ last'.arg \in ApiPresetIds /\ mode_action) =>
          /\ runtime'.local_whisper = NONE
          /\ files' \cap LocalFileNames = {} ]_vars

\* C10 witness: a switch to a preset found a resident model with its file
\* on disk and left neither
C10_PresetSwitchFreedModel ==
    /\ last.op = "mode_action" /\ last.arg \in ApiPresetIds
    /\ last.freed
    /\ runtime.local_whisper = NONE
    /\ LocalArtifacts = {}

\* C11: whenever the service is Api and no load or download is in flight,
\* the models directory holds no file of a local model that this run loaded
\* or downloaded; the revert after a failed load or download is included.
\* Stated for the local model the last handler moved the selection away
\* from: a local model that was the selection had its file loaded or
\* downloaded by this run.
C11_NoArtifactWhileRemote ==
    (runtime.active_service = Api /\ AcquisitionsInFlight = 0) => ~last.kept

\* a step in which a poller receives the failure of a load or of a download
FailureDelivered ==
    \/ load_poller /\ last'.op = "load_poller" /\ last'.arg # "ok"
    \/ download_poller /\ last'.op = "download_poller" /\ last'.arg = "Error"

\* C12: when the failure of a load or of a download is delivered, the
\* selection becomes the first API preset (its id, base URL and default
\* model), downloading is clear, a failure status is shown and the State
\* is not changed.
C12_FailureReverts ==
    [][ FailureDelivered =>
          /\ runtime'.active_service = Api
          /\ runtime'.active_provider = API_PRESETS[1].id
          /\ runtime'.api_base_url = API_PRESETS[1].base_url
          /\ runtime'.api_model = API_PRESETS[1].default_model
          /\ ~runtime'.downloading
          /\ last'.shown \in {"Model load failed", "Download failed"}
          /\ state' = state ]_vars

\* the provider selection held by RuntimeState
Selection(rt) ==
    << rt.active_service, rt.active_provider, rt.api_base_url, rt.api_key,
       rt.api_model >>

\* C13: while a download is in flight downloading is set, no click starts a
\* recording and no handler changes the provider selection; downloading
\* becomes set only in a step that starts a download, and becomes clear
\* only when the download's poller receives Done or Error, which ends that
\* download.
C13_DownloadingFlag ==
    [][ /\ downloads # {} => runtime.downloading
        /\ (runtime.downloading /\ button_clicked) => state' # Recording
        /\ (runtime.downloading /\ SwitchStep)
              => Selection(runtime') = Selection(runtime)
        /\ (~runtime.downloading /\ runtime'.downloading)
              => Cardinality(downloads') = Cardinality(downloads) + 1
        /\ (runtime.downloading /\ ~runtime'.downloading)
              => /\ download_poller
                 /\ last'.arg \in {"Done", "Error"}
                 /\ Cardinality(downloads') = Cardinality(downloads) - 1 ]_vars

\* the message with which a download thread ended
TerminalMsg(d) == d.chan[Len(d.chan)]

\* C14: the step in which a download thread ends with Error leaves neither
\* the .part file nor the final file; the step in which it ends with Done
\* leaves the final file and no .part file; and while a download thread
\* has not ended, no file exists at its final path.
C14_DownloadFiles ==
    [][ /\ \A d \in downloads, e \in downloads' :
              (d.id = e.id /\ d.pc # "done" /\ e.pc = "done") =>
                  /\ part_path(d.path) \notin files'
                  /\ TerminalMsg(e).type = "Error" => d.path \notin files'
                  /\ TerminalMsg(e).type = "Done" => d.path \in files'
                  /\ TerminalMsg(e).type \in {"Error", "Done"}
        /\ \A e \in downloads' : e.pc # "done" => e.path \notin files' ]_vars

\* C14 witness: a download that had written a chunk to its .part file has
\* ended with Error, and neither file is on disk
C14_FailedAfterChunk ==
    \E d \in downloads :
        /\ d.pc = "done"
        /\ d.downloaded > 0
        /\ d.chan # << >>
        /\ TerminalMsg(d).type = "Error"
        /\ part_path(d.path) \notin files
        /\ d.path \notin files

\* the Progress messages of a channel carry strictly increasing counts
Increasing(chan) ==
    \A i, j \in DOMAIN chan :
        (i < j /\ chan[i].type = "Progress" /\ chan[j].type = "Progress")
            => chan[i].n < chan[j].n

\* C15: a switch to a local model whose file is absent starts a download
\* and no load; one whose file is present starts a load and no download.
\* Each Progress a download thread sends carries more than every Progress
\* it sent before.  The poller's step that receives Done starts a load of
\* the downloaded file.
C15_DownloadThenLoad ==
    [][ /\ (last'.op = "mode_action" /\ last'.arg \in LocalModelIds /\ mode_action) =>
              LET f == find_local_model(last'.arg).file_name IN
              IF f \in files
                THEN /\ loads' = [loads EXCEPT ![f] = @ + 1]
                     /\ downloads' = downloads
                ELSE /\ loads' = loads
                     /\ \E d \in downloads' :
                          /\ d.path = f /\ d.pc = "request"
                          /\ downloads' = downloads \cup {d}
                          /\ d \notin downloads
        /\ \A d \in downloads, e \in downloads' :
              (d.id = e.id /\ e.downloaded # d.downloaded) =>
                  /\ e.downloaded > d.downloaded
                  /\ TerminalMsg(e) = [type |-> "Progress", n |-> e.downloaded]
                  /\ \A i \in DOMAIN d.chan :
                        d.chan[i].type = "Progress" => d.chan[i].n <= d.downloaded
        /\ \A e \in downloads' : Increasing(e.chan)
        /\ (last'.op = "download_poller" /\ last'.arg = "Done" /\ download_poller) =>
              \E d \in downloads :
                  /\ downloads' = downloads \ {d}
                  /\ loads' = [loads EXCEPT ![d.path] = @ + 1] ]_vars

\* C15 witness: the poller has received Done and the load of the
\* downloaded file is in flight
C15_LoadAfterDone ==
    /\ last.op = "download_poller" /\ last.arg = "Done"
    /\ runtime.active_service = Local
    /\ LET f == find_local_model(runtime.active_provider).file_name IN
       f \in files /\ loads[f] = 1

\* C16: a click in Recording stops the capture; when no samples were
\* captured the State becomes Idle and no request is dispatched; otherwise
\* the State becomes Processing and exactly one request, still pending, is
\* dispatched.
C16_RecordingClick ==
    [][ (state = Recording /\ button_clicked) =>
          /\ ~recorder'.stream
          /\ IF ~recorder.samples
               THEN /\ state' = Idle
                    /\ requests' = requests
               ELSE /\ state' = Processing
                    /\ \E r \in requests' :
                         /\ r \notin requests
                         /\ r.result = "pending"
                         /\ requests' = requests \cup {r} ]_vars

\* C16 witness: a click in Recording found no samples and went back to Idle
C16_StopFailed ==
    /\ last.op = "click" /\ last.arg = "stop_failed" /\ last.from = Recording
    /\ state = Idle
    /\ requests = {}
    /\ ~recorder.stream

\* a step in which the result poller receives the outcome res of request r
Delivered(r, res) ==
    /\ r \in requests
    /\ r.result = res
    /\ requests' = requests \ {r}
    /\ result_poller

\* C17: when the poller receives Ok(text) in Processing, the handler calls
\* the history insert once and the clipboard copy once, both with that
\* text, and the State becomes Idle, also when the copy fails.
C17_OkResult ==
    [][ \A r \in requests, text \in Texts :
          Delivered(r, text) =>
              /\ state = Processing
              /\ state' = Idle
              /\ last'.calls = << [fn |-> "Db::insert", text |-> text],
                                  [fn |-> "copy_to_clipboard", text |-> text] >>
              /\ last'.shown \in {"Copied!", "Error!"} ]_vars

\* C17 witness: a text was delivered, the clipboard copy failed, and the
\* State is Idle
C17_OkWithFailedCopy ==
    /\ last.op = "result_poller" /\ last.arg = "ok" /\ last.shown = "Error!"
    /\ last.from = Processing
    /\ state = Idle
    /\ \E text \in Texts :
         last.calls = << [fn |-> "Db::insert", text |-> text],
                         [fn |-> "copy_to_clipboard", text |-> text] >>

\* C18: when the poller receives Err(e) in Processing, the State becomes
\* Idle, the handler calls neither the history insert, nor the clipboard
\* copy, nor the paste simulation, and RuntimeState is unchanged.
C18_ErrResult ==
    [][ \A r \in requests :
          Delivered(r, "err") =>
              /\ state = Processing
              /\ state' = Idle
              /\ last'.calls = << >>
              /\ runtime' = runtime
              /\ settings' = settings
              /\ files' = files ]_vars

\* C18 witness: an error was delivered and the State is Idle
C18_ErrDelivered ==
    /\ last.op = "result_poller" /\ last.arg = "err" /\ last.from = Processing
    /\ last.shown = "Error!"
    /\ last.calls = << >>
    /\ state = Idle

\* C19: when the poller finds the channel disconnected, the State becomes
\* Idle, the handler calls neither the history insert nor the clipboard
\* copy, and it shows no success status.
C19_DroppedSender ==
    [][ \A r \in requests :
          Delivered(r, "dropped") =>
              /\ state = Processing
              /\ state' = Idle
              /\ last'.calls = << >>
              /\ last'.shown # "Copied!" ]_vars

\* C19 witness: the channel was found disconnected and the State is Idle
C19_DroppedDelivered ==
    /\ last.op = "result_poller" /\ last.arg = "dropped" /\ last.from = Processing
    /\ last.shown = NONE
    /\ last.calls = << >>
    /\ state = Idle

\* the calls to the paste simulation among the calls of a handler
Pastes(calls) == {i \in DOMAIN calls : calls[i].fn = "simulate_paste"}

\* C20: the handler that receives Ok(text) calls the paste simulation
\* exactly once, after the clipboard copy; the handlers that receive an
\* error or find the channel disconnected do not call it.
C20_PasteOncePerSuccess ==
    [][ \A r \in requests :
          /\ \A text \in Texts :
                Delivered(r, text) =>
                    /\ Cardinality(Pastes(last'.calls)) = 1
                    /\ \A i \in Pastes(last'.calls) :
                          \E j \in 1..(i - 1) :
                              last'.calls[j].fn = "copy_to_clipboard"
          /\ (Delivered(r, "err") \/ Delivered(r, "dropped")) =>
                Pastes(last'.calls) = {} ]_vars


\* what a request carries of the provider selection
Params(r) == << r.service, r.provider, r.base_url, r.api_key, r.model, r.whisper >>

\* the provider selection as the Recording branch clones it for a request
Snapshot(rt) ==
    << rt.active_service,
       rt.active_provider,
       IF rt.active_service = Api THEN rt.api_base_url ELSE NONE,
       IF rt.active_service = Api THEN or_else(rt.api_key, "") ELSE NONE,
       IF rt.active_service = Api THEN rt.api_model ELSE NONE,
       IF rt.active_service = Local THEN rt.local_whisper ELSE NONE >>

\* C21: a request carries the service, provider, base URL, key, model and
\* model handle that RuntimeState held when it was dispatched; no later
\* step alters them, whatever it does to RuntimeState; and an Api request
\* is posted to the transcription endpoint under the base URL it carries.
C21_RequestIsSnapshot ==
    [][ /\ \A r \in requests' :
              (\A q \in requests : q.id # r.id) => Params(r) = Snapshot(runtime)
        /\ \A q \in requests, r \in requests' :
              q.id = r.id => Params(r) = Params(q)
        /\ \A q \in requests, r \in requests' :
              (q.id = r.id /\ r.service = Api /\ q.result = "pending"
                  /\ r.result \in Texts \cup {"err"})
                  => r.endpoint = q.base_url \o "/audio/transcriptions" ]_vars


\* C22: the State starts as Idle and changes only from Idle to Recording
\* (a click), from Recording to Processing (a click), from Recording to
\* Idle (a click whose stop failed) and from Processing to Idle (the result
\* poller receiving a text, an error or a disconnected channel); no
\* provider switch and no load or download poller changes it.
C22_StateTransitions ==
    /\ state = Idle
    /\ [][ /\ state' # state =>
                \/ state = Idle /\ state' = Recording /\ button_clicked
                \/ state = Recording /\ state' = Processing /\ button_clicked
                \/ /\ state = Recording /\ state' = Idle /\ button_clicked
                   /\ last'.arg = "stop_failed"
                \/ /\ state = Processing /\ state' = Idle /\ result_poller
                   /\ last'.arg \in {"ok", "err", "dropped"}
           /\ state' # state => ~(SwitchStep \/ load_poller \/ download_poller) ]_vars

\* C22 witness: a load was delivered while a request was being processed,
\* and the State is still Processing
C22_LoadDuringProcessing ==
    /\ last.op = "load_poller" /\ last.from = Processing
    /\ state = Processing


\* the transcription thread has ended: it sent a result or dropped the sender
Terminated == \E r \in requests : r.result # "pending"

\* C23: while the transcription thread has not ended the State stays
\* Processing (no timeout, no cancellation); once the thread has ended,
\* by sending a result or by dropping the sender, the poller brings the
\* State back to Idle.
C23_PolledUntilTerminal ==
    /\ []((\E r \in requests : r.result = "pending") => state = Processing)
    /\ ((state = Processing /\ Terminated) ~> state = Idle)

\* C23 witness: the poller has received the thread's outcome and the State
\* is Idle with no request left
C23_BackToIdle ==
    /\ last.op = "result_poller" /\ last.from = Processing
    /\ state = Idle
    /\ requests = {}


\* C24: the RuntimeState build_ui constructs.  A saved API preset id gives
\* that preset's id, base URL and default model; a saved local model id
\* (or the legacy "local", the default local model) gives the Local service
\* with that model; a saved "custom" gives the saved URL, key and model,
\* each replaced by the process configuration's only when it is not saved;
\* no saved mode, or one that names no provider, gives the service, base
\* URL, key and model of the process configuration.
C24_SettingsBeforeConfig ==
    last.op = "build_ui" =>
        LET mode == settings["transcription_mode"] IN
        /\ \A i \in DOMAIN API_PRESETS :
              mode = API_PRESETS[i].id =>
                  /\ runtime.active_service = Api
                  /\ runtime.active_provider = API_PRESETS[i].id
                  /\ runtime.api_base_url = API_PRESETS[i].base_url
                  /\ runtime.api_model = API_PRESETS[i].default_model
        /\ mode \in LocalModelIds =>
              /\ runtime.active_service = Local
              /\ runtime.active_provider = mode
        /\ mode = "local" =>
              /\ runtime.active_service = Local
              /\ runtime.active_provider = DEFAULT_LOCAL_MODEL
        /\ mode = "custom" =>
              /\ runtime.active_service = Api
              /\ runtime.active_provider = "custom"
              /\ runtime.api_base_url =
                    IF settings["api_custom_url"] # NONE
                      THEN settings["api_custom_url"] ELSE config.api_base_url
              /\ runtime.api_key =
                    IF settings["api_custom_key"] # NONE
                      THEN settings["api_custom_key"] ELSE config.api_key
              /\ runtime.api_model =
                    IF settings["api_custom_model"] # NONE
                      THEN settings["api_custom_model"] ELSE config.api_model
        /\ mode \notin ApiPresetIds \cup LocalModelIds \cup {"local", "custom"} =>
              /\ runtime.active_service = config.transcription_service
              /\ runtime.api_base_url = config.api_base_url
              /\ runtime.api_key = config.api_key
              /\ runtime.api_model = config.api_model

\* C24 witness: "custom" is saved with a URL and no model, the environment
\* sets both, and build_ui took the saved URL and the environment's model
C24_CustomPartlySaved ==
    /\ last.op = "build_ui"
    /\ settings["transcription_mode"] = "custom"
    /\ settings["api_custom_url"] = CUSTOM_URL
    /\ settings["api_custom_model"] = NONE
    /\ config.api_base_url = ENV_URL
    /\ config.api_model = ENV_MODEL
    /\ runtime.api_base_url = CUSTOM_URL
    /\ runtime.api_model = ENV_MODEL


\* a step of one of the two handlers that switch to a custom remote
CustomSwitchStep == dialog_save \/ set_api_config \/ set_api_config_empty

\* C25: neither the dialog's Save nor set-api-config switches to a custom
\* remote with an empty base URL or an empty model: a step of theirs that
\* changes RuntimeState, the settings or the files leaves a custom remote
\* whose URL and model, active and saved, are not empty.
C25_EmptyCustomRejected ==
    [][ (CustomSwitchStep /\ << runtime, settings, files >>' # << runtime, settings, files >>)
            => /\ runtime'.api_base_url # ""
               /\ runtime'.api_model # ""
               /\ settings'["api_custom_url"] # ""
               /\ settings'["api_custom_model"] # "" ]_vars


\* C26: a click in Idle that passes the guards and whose Recorder::start
\* fails leaves the State Idle and no stream held; the next click the
\* handler receives is taken by the Idle branch again: it is rejected by a
\* guard, or it calls Recorder::start.
C26_StartFailure ==
    [][ /\ (last'.arg = "start_failed" /\ button_clicked) =>
              /\ state = Idle /\ idle_guard(runtime) = NONE
              /\ state' = Idle
              /\ ~recorder'.stream
              /\ requests' = requests
        /\ (last.op = "click" /\ last.arg = "start_failed" /\ button_clicked) =>
              /\ state = Idle
              /\ last'.arg \in {"rejected", "started", "start_failed"}
              /\ last'.arg = "started" => (state' = Recording /\ recorder'.stream) ]_vars

\* C26 witness: the guards passed, Recorder::start failed, and the State
\* is Idle with no stream held
C26_StartFailed ==
    /\ last.op = "click" /\ last.arg = "start_failed" /\ last.from = Idle
    /\ last.shown = "Err: start"
    /\ idle_guard(runtime) = NONE
    /\ state = Idle
    /\ ~recorder.stream


\* C27: api::transcribe sends one request and returns Ok(text) exactly when
\* the request was answered, the status is 2xx and the body is JSON whose
\* "text" is a string, text being that string; a transport failure, another
\* status, a body that is no JSON and a missing or non-string "text" each
\* give Err after that one request.
C27_OneAttemptTextOrError ==
    last.op = "returned" =>
        LET resp == last.response
            good == /\ resp.sent
                    /\ resp.status \in 200..299
                    /\ resp.body.parse # "garbage"
                    /\ resp.body.text.kind = "string"
        IN /\ last.returned.attempts = 1
           /\ last.returned.ok <=> good
           /\ good => last.returned.value = resp.body.text.str

\* C27 witness: a 2xx answer whose "text" is a string was returned as Ok,
\* and an answer with that body under another status would not be
C27_OkReturned ==
    /\ last.op = "returned"
    /\ last.response.status = 201
    /\ last.response.body.text = [kind |-> "string", str |-> "hello world"]
    /\ last.returned = [ok |-> TRUE, value |-> "hello world", attempts |-> 1]


\* round(v * 32767) for v a number of eighths: f32::round, halves away
\* from zero
RoundedScaled(v) ==
    LET product == v * I16_MAX IN
    IF product >= 0 THEN (2 * product + One) \div (2 * One)
                    ELSE -((2 * (-product) + One) \div (2 * One))

\* C28: every 16-bit sample written is round(clamp(s, -1, 1) * 32767) for
\* the mono sample s it encodes, so it is within half a quantization step
\* of the clamped sample scaled by 32767.
C28_RoundedSample ==
    last.op = "encoded" =>
        /\ Len(last.pcm) = Len(last.mono)
        /\ \A i \in DOMAIN last.pcm :
              LET s == IF last.mono[i] < -One THEN -One
                       ELSE IF last.mono[i] > One THEN One ELSE last.mono[i]
                  error == last.pcm[i] * One - s * I16_MAX
              IN /\ last.pcm[i] = RoundedScaled(s)
                 /\ 2 * error <= One /\ 2 * error >= -One

\* C29: with more than one channel, the mono output has one sample for each
\* complete frame of the buffer and none besides, and each is the mean of
\* its frame's channel samples.
C29_MonoIsFrameMean ==
    (last.op = "encoded" /\ last.channels > 1) =>
        LET frames == Len(last.samples) \div last.channels IN
        /\ \A i \in 1..frames :
              i <= Len(last.mono) /\
              last.mono[i] * last.channels =
                  chunk_sum(last.samples, (i - 1) * last.channels + 1, i * last.channels)
        /\ Len(last.mono) = frames

\* C30: a resident model belongs to the selection: when a model is
\* resident the service is Local and the model was loaded from the file of
\* the active local preset; a load received after the selection has moved
\* on publishes nothing.
C30_HandleOfSelection ==
    runtime.local_whisper # NONE =>
        /\ runtime.active_service = Local
        /\ runtime.active_provider \in LocalModelIds
        /\ runtime.local_whisper = find_local_model(runtime.active_provider).file_name

\* the model file of the local preset RuntimeState selects, or NONE
SelectedFile(rt) ==
    IF rt.active_service = Local /\ rt.active_provider \in LocalModelIds
      THEN find_local_model(rt.active_provider).file_name
      ELSE NONE

\* C31: a load or download failure is delivered for a model file; when that
\* file is not the file of the active local preset any more (the user has
\* switched since), the delivery leaves the service, provider id, base URL,
\* key and model as they are.
C31_StaleFailureKeepsSelection ==
    [][ /\ (last'.op = "load_poller" /\ last'.arg # "ok" /\ load_poller) =>
              \A f \in LocalFileNames :
                  (loads'[f] < loads[f] /\ SelectedFile(runtime) # f)
                      => Selection(runtime') = Selection(runtime)
        /\ (last'.op = "download_poller" /\ last'.arg = "Error" /\ download_poller) =>
              \A d \in downloads :
                  (d \notin downloads' /\ SelectedFile(runtime) # d.path)
                      => Selection(runtime') = Selection(runtime) ]_vars

\* the provider of a request needs a key: needs_key of its preset, and a
\* provider that is no preset counts as needing one
RequestNeedsKey(r) ==
    IF r.provider \in ApiPresetIds THEN find_preset(r.provider).needs_key ELSE TRUE

\* C32: every Api request in flight whose provider needs a key carries a
\* key that is present and not empty.
C32_DispatchedWithKey ==
    \A r \in requests :
        (r.service = Api /\ RequestNeedsKey(r)) => r.api_key \notin {NONE, ""}

\* the settings key under which the key of a provider is saved
SavedKeySetting(provider) ==
    IF provider = "custom" THEN "api_custom_key" ELSE api_key_setting(provider)

\* C33: an Api request is dispatched with the key saved for its own
\* provider, with the process-level key, or with none.
C33_KeyOfOwnProvider ==
    [][ \A r \in requests' :
          ((\A q \in requests : q.id # r.id) /\ r.service = Api /\ r.api_key # "")
              => r.api_key \in {settings[SavedKeySetting(r.provider)], config.api_key} ]_vars

\* C34: whenever no load or download is in flight and a provider has been
\* saved, the saved transcription_mode is the active provider id.
C34_SavedModeIsActive ==
    (AcquisitionsInFlight = 0 /\ settings["transcription_mode"] # NONE)
        => settings["transcription_mode"] = runtime.active_provider

\* C35: no handler panics on a missing model, and a request dispatched
\* under the Local service carries a resident model.
C35_LocalDispatchHasHandle ==
    /\ ~panicked
    /\ \A r \in requests : r.service = Local => r.whisper # NONE

\* C35 witness: a request was dispatched under Local with the model loaded
\* from the active preset's file
C35_LocalDispatched ==
    /\ last.op = "click" /\ last.arg = "dispatched"
    /\ state = Processing
    /\ runtime.active_service = Local
    /\ \E r \in requests :
          r.service = Local /\ r.whisper = "ggml-tiny.en.bin" /\ r.result = "pending"


\* C36: in every state, the one build_ui constructs included, active_service
\* is Local exactly when active_provider is the id of a local model preset,
\* and Api exactly when it is the id of an API preset or "custom".
C36_ServiceMatchesProvider ==
    last.op = "build_ui" =>
        /\ runtime.active_service = Local <=> runtime.active_provider \in LocalModelIds
        /\ runtime.active_service = Api
              <=> runtime.active_provider \in ApiPresetIds \cup {"custom"}

DownloadOnlyInIdle ==
    downloads # {} =>
        /\ state = Idle
        /\ runtime.downloading
        /\ requests = {}
        /\ ~recorder.stream

C38_PollerOnlyInProcessing ==
    /\ requests # {} <=> state = Processing
    /\ Cardinality(requests) <= 1
    /\ last.op = "result_poller" =>
          /\ last.from = Processing
          /\ state = Idle
          /\ requests = {}

\* C38 witness: the poller has consumed a transcript in Processing and is
\* gone
C38_OutcomeConsumed ==
    /\ last.op = "result_poller" /\ last.arg = "ok"
    /\ last.from = Processing
    /\ requests = {}

\* C39: with a custom remote active and no API key, a click in Idle is
\* refused with "No API key set" and the State stays Idle.
C39_CustomWithoutKeyRejected ==
    [][ (/\ state = Idle
         /\ runtime.active_provider = "custom"
         /\ runtime.api_key = NONE
         /\ button_clicked)
        => /\ state' = Idle
           /\ last'.op = "click" /\ last'.arg = "rejected"
           /\ last'.shown = "No API key set" ]_vars

\* C40: selecting the provider that is already active does nothing.
\* RuntimeState (the resident model and the key included), the settings
\* table and the model files are unchanged and no load, download or dialog
\* is started; a selection that does switch is to another provider.
C40_SameProviderNoOp ==
    [][ (last'.op = "mode_action" /\ mode_action)
        => /\ last'.arg = "same" =>
                 UNCHANGED << runtime, settings, files, loads, downloads, dialogs >>
           /\ last'.arg \notin {"busy", "downloading", "same"} =>
                 last'.arg # runtime.active_provider ]_vars

\* C40 witness: the active provider was selected again in Idle
C40_SameSelected ==
    /\ last.op = "mode_action" /\ last.arg = "same"
    /\ last.from = Idle
=============================================================================
